---- MODULE Spec2Model ----
(***************************************************************************)
(* Model of src/app.py: the caption detector is_caption, the region        *)
(* resolver get_smart_clip_rect and the extraction loop that records one   *)
(* figure per caption.                                                     *)
(*                                                                         *)
(* Lengths are integers counting halves of a page unit (pt(n) is n page    *)
(* units), so that every midpoint and half width the code computes is      *)
(* exact. Page widths are even and page heights multiples of three page    *)
(* units, so page_width / 2 and page_height / 3 are exact as well. The     *)
(* floating point rounding of page_width * 0.45 is not modelled.           *)
(***************************************************************************)
EXTENDS Integers, Sequences, FiniteSets, TLC

VARIABLES
    \* one call of is_caption
    text, matched, cpc,
    \* one call of get_smart_clip_rect and its locals
    page, caption_rect, rpc, layout, band, cands, final_rect,
    \* whether an earlier, more leftward caption was right column; captions tried
    seen_right, moves,
    \* the extraction loop: len(doc), position, the page being scanned, its
    \* sorted blocks, the index of the block in hand, its clip_rect, the
    \* figure list and the slides
    total_pages, pc, page_idx, cur_page, blocks, bi, clip_rect,
    extracted_results, slides,
    \* history: the caption block each figure came from, and the number of
    \* blocks is_caption accepted
    origins, detected

vars == <<text, matched, cpc,
          page, caption_rect, rpc, layout, band, cands, final_rect,
          seen_right, moves,
          total_pages, pc, page_idx, cur_page, blocks, bi, clip_rect,
          extracted_results, slides, origins, detected>>

capVars == <<text, matched, cpc>>
clipVars == <<page, caption_rect, rpc, layout, band, cands, final_rect,
              seen_right, moves>>
loopVars == <<total_pages, pc, page_idx, cur_page, blocks, bi, clip_rect,
              extracted_results, slides, origins, detected>>

---------------------------------------------------------------------------
(* Geometry: fitz.Rect as the code uses it.                                *)

pt(n) == 2 * n

Max(a, b) == IF a >= b THEN a ELSE b

Min(a, b) == IF a <= b THEN a ELSE b

Rect(x0, y0, x1, y1) == [x0 |-> x0, y0 |-> y0, x1 |-> x1, y1 |-> y1]

\* A rectangle given in page units.
R(x0, y0, x1, y1) == Rect(pt(x0), pt(y0), pt(x1), pt(y1))

\* fitz.Rect.width and .height: zero for a rectangle whose edges are crossed.
RectWidth(r) == Max(0, r.x1 - r.x0)

RectHeight(r) == Max(0, r.y1 - r.y0)

\* fitz.Rect.is_empty
IsEmpty(r) == r.x0 >= r.x1 \/ r.y0 >= r.y1

\* a |= r  (fitz.Rect.__or__ / include_rect): an empty r is ignored, an empty
\* a is replaced by r, otherwise the bounding box of both.
include_rect(a, r) ==
    IF IsEmpty(r) THEN a
    ELSE IF IsEmpty(a) THEN r
    ELSE Rect(Min(a.x0, r.x0), Min(a.y0, r.y0), Max(a.x1, r.x1), Max(a.y1, r.y1))

---------------------------------------------------------------------------
(* get_smart_clip_rect                                                     *)

min_y_limit == 50

y_tolerance == 15

margin == 30

padding == 5

\* left_boundary = page_width * 0.45, held as 100 * left_boundary.
left_boundary100(page_width) == page_width * 45

\* right_boundary = page_width * 0.55, held as 100 * right_boundary.
right_boundary100(page_width) == page_width * 55

layout_type_swapped(cr, page_width) ==
    IF 100 * cr.x1 < left_boundary100(page_width) THEN "RIGHT_COLUMN"
    ELSE IF 100 * cr.x0 > right_boundary100(page_width) THEN "LEFT_COLUMN"
    ELSE "FULL_WIDTH"

layout_type_midline(cr, page_width) ==
    IF 2 * cr.x1 < page_width THEN "LEFT_COLUMN"
    ELSE IF 2 * cr.x0 > page_width THEN "RIGHT_COLUMN"
    ELSE "FULL_WIDTH"

\* Lines 49-64: the three-way test on the caption's edges.
layout_type(cr, page_width) ==
    IF 100 * cr.x1 < left_boundary100(page_width) THEN "LEFT_COLUMN"
    ELSE IF 100 * cr.x0 > right_boundary100(page_width) THEN "RIGHT_COLUMN"
    ELSE "FULL_WIDTH"

\* Lines 57, 60, 64: (search_x0, search_x1) of each layout.
search_band(lt, page_width) ==
    CASE lt = "LEFT_COLUMN" -> [x0 |-> 0, x1 |-> page_width \div 2]
      [] lt = "RIGHT_COLUMN" -> [x0 |-> page_width \div 2, x1 |-> page_width]
      [] OTHER -> [x0 |-> 0, x1 |-> page_width]

is_candidate_any_column(r, y0, b) ==
    /\ r.y1 <= y0 + pt(y_tolerance)
    /\ r.y0 > pt(min_y_limit)

\* Lines 85-87 and 94-95: the test a drawing or an image bbox must pass.
is_candidate(r, y0, b) ==
    /\ r.y1 <= y0 + pt(y_tolerance)
    /\ r.y0 > pt(min_y_limit)
    /\ ~(r.x1 < b.x0 \/ r.x0 > b.x1)

\* Lines 79-88: the drawings that pass, in order.
drawing_candidates(pg, y0, b) ==
    SelectSeq(pg.drawings, LAMBDA r : is_candidate(r, y0, b))

\* Lines 91-98: the images whose bbox can be read and passes, in order; an
\* image whose get_image_bbox raises is skipped.
image_candidates(pg, y0, b) ==
    LET ok == SelectSeq(pg.images, LAMBDA im : im.ok /\ is_candidate(im.rect, y0, b))
    IN  [i \in 1..Len(ok) |-> ok[i].rect]

candidates(pg, y0, b) == drawing_candidates(pg, y0, b) \o image_candidates(pg, y0, b)

fallback_rect_full_band(cr, b, page_height) ==
    Rect(b.x0, Max(pt(min_y_limit), cr.y0 - page_height \div 3), b.x1, cr.y0)

\* Lines 101-110: no candidate, one third of the page above the caption.
fallback_rect(cr, b, page_height) ==
    LET fallback_height == page_height \div 3
        final_top == Max(pt(min_y_limit), cr.y0 - fallback_height)
    IN  Rect(b.x0 + pt(margin), final_top, b.x1 - pt(margin), cr.y0)

RECURSIVE union_from(_, _, _)
union_from(acc, cs, i) ==
    IF i > Len(cs) THEN acc ELSE union_from(include_rect(acc, cs[i]), cs, i + 1)

\* Lines 113-115
union_rect(cs) == union_from(cs[1], cs, 1)

adjust_bounds_keep_bottom(u, cr, page_width) ==
    Rect(Max(0, u.x0 - pt(padding)),
         Max(pt(min_y_limit), u.y0 - pt(padding)),
         Min(page_width, u.x1 + pt(padding)),
         u.y1)

\* Lines 119-126: bottom on the caption's top edge, padding on the other sides.
adjust_bounds(u, cr, page_width) ==
    Rect(Max(0, u.x0 - pt(padding)),
         Max(pt(min_y_limit), u.y0 - pt(padding)),
         Min(page_width, u.x1 + pt(padding)),
         cr.y0)

\* Lines 129-133: a region narrower than the caption is widened around its centre.
width_check(r, cr) ==
    IF RectWidth(r) < RectWidth(cr)
    THEN LET center == (r.x0 + r.x1) \div 2
             half_w == RectWidth(cr) \div 2
         IN  [r EXCEPT !.x0 = Min(r.x0, center - half_w),
                       !.x1 = Max(r.x1, center + half_w)]
    ELSE r

\* Lines 37-135
get_smart_clip_rect(pg, cr, page_width, page_height) ==
    LET b == search_band(layout_type(cr, page_width), page_width)
        cs == candidates(pg, cr.y0, b)
    IN  IF cs = <<>>
        THEN fallback_rect(cr, b, page_height)
        ELSE width_check(adjust_bounds(union_rect(cs), cr, page_width), cr)

---------------------------------------------------------------------------
(* Inputs of the region resolver: pages, captions and visual objects.      *)

MaxObjects == 2

MaxMoves == 1

PageSizes == {[width |-> pt(600), height |-> pt(900)],
              [width |-> pt(600), height |-> pt(420)]}

\* Horizontal extents of a caption block, in page units.
CaptionSpans == {<<40, 260>>, <<40, 270>>, <<40, 300>>, <<20, 580>>,
                 <<330, 580>>, <<340, 560>>, <<100, 140>>, <<400, 580>>}

\* Top edges of a caption block, in page units; a caption is 15 units high.
CaptionTops == {30, 380, 500, 700, 870}

CaptionRects ==
    {R(s[1], t, s[2], t + 15) : s \in CaptionSpans, t \in CaptionTops}
        \cup {R(40, 500, 300, 515), R(20, 700, 580, 715)}

\* Bounding boxes of vector drawings.
DrawingRects == {R(60, 200, 240, 480),     \* a figure in the left column
                 R(100, 300, 500, 480),    \* a figure across the midline
                 R(360, 200, 560, 480),    \* a figure in the right column
                 R(100, 508, 200, 514),    \* a rule under a caption line at 500
                 R(20, 60, 580, 880),      \* a page-sized background fill
                 R(60, 40, 240, 300),      \* starts inside the header band
                 R(0, 400, 10, 410),       \* a small mark at the page edge
                 R(200, 300, 300, 480),    \* ends on the midline
                 R(60, 470, 240, 470),     \* a horizontal line: no height
                 R(60, 520, 240, 700)}     \* below the caption

\* Placement boxes of raster images, each with whether get_image_bbox works.
ImageRects == {R(360, 200, 560, 480), R(100, 508, 200, 514)}

Images == {[rect |-> r, ok |-> k] : r \in ImageRects, k \in BOOLEAN}

SeqsUpTo(S, n) == UNION {[1..k -> S] : k \in 0..n}

OnPage(r, size) == r.x0 >= 0 /\ r.y0 >= 0 /\ r.x1 <= size.width /\ r.y1 <= size.height

Pages ==
    {[width |-> sz.width, height |-> sz.height, drawings |-> d, images |-> im] :
        sz \in PageSizes,
        d \in SeqsUpTo(DrawingRects, MaxObjects),
        im \in SeqsUpTo(Images, MaxObjects)}

ValidPage(pg) ==
    /\ Len(pg.drawings) + Len(pg.images) <= MaxObjects
    /\ \A i \in 1..Len(pg.drawings) : OnPage(pg.drawings[i], pg)
    /\ \A i \in 1..Len(pg.images) : OnPage(pg.images[i].rect, pg)

NoRect == Rect(0, 0, 0, 0)

NoPage == [width |-> 0, height |-> 0, drawings |-> <<>>, images |-> <<>>]

CapIdle == text = <<>> /\ matched = FALSE /\ cpc = "idle"

ClipIdle ==
    /\ page = NoPage /\ caption_rect = NoRect /\ rpc = "idle"
    /\ layout = "UNKNOWN" /\ band = [x0 |-> 0, x1 |-> 0] /\ cands = <<>>
    /\ final_rect = NoRect /\ seen_right = FALSE /\ moves = 0

LoopIdle ==
    /\ total_pages = 0 /\ pc = "idle" /\ page_idx = 0 /\ cur_page = NoPage
    /\ blocks = <<>> /\ bi = 0 /\ clip_rect = NoRect
    /\ extracted_results = <<>> /\ slides = <<>>
    /\ origins = <<>> /\ detected = 0

---------------------------------------------------------------------------
(* The region resolver applied to one caption, then to the same caption    *)
(* moved to the right.                                                     *)

InitClip ==
    /\ CapIdle /\ LoopIdle
    /\ page \in {pg \in Pages : ValidPage(pg)}
    /\ caption_rect \in {cr \in CaptionRects : OnPage(cr, page)}
    /\ rpc = "call"
    /\ layout = "UNKNOWN" /\ band = [x0 |-> 0, x1 |-> 0] /\ cands = <<>>
    /\ final_rect = NoRect /\ seen_right = FALSE /\ moves = 0

\* One call of get_smart_clip_rect; layout, band and cands keep the values of
\* its locals layout_type, (search_x0, search_x1) and candidates.
Resolve ==
    /\ rpc = "call"
    /\ layout' = layout_type(caption_rect, page.width)
    /\ band' = search_band(layout', page.width)
    /\ cands' = candidates(page, caption_rect.y0, band')
    /\ final_rect' = get_smart_clip_rect(page, caption_rect, page.width, page.height)
    /\ rpc' = "returned"
    /\ UNCHANGED <<page, caption_rect, seen_right, moves>>
    /\ UNCHANGED capVars /\ UNCHANGED loopVars

CenterX2(r) == r.x0 + r.x1

\* The caller presents a caption whose centre lies strictly to the right of
\* the last one, on the same line.
MoveRight ==
    /\ rpc = "returned"
    /\ moves < MaxMoves
    /\ \E cr \in CaptionRects :
          /\ OnPage(cr, page)
          /\ cr.y0 = caption_rect.y0
          /\ CenterX2(cr) > CenterX2(caption_rect)
          /\ caption_rect' = cr
    /\ seen_right' = (seen_right \/ layout = "RIGHT_COLUMN")
    /\ moves' = moves + 1
    /\ rpc' = "call"
    /\ UNCHANGED <<page, layout, band, cands, final_rect>>
    /\ UNCHANGED capVars /\ UNCHANGED loopVars

NextClip == Resolve \/ MoveRight

SpecClip == InitClip /\ [][NextClip]_vars

---------------------------------------------------------------------------
(* Properties of the region resolver, under SpecClip.                      *)

Returned == rpc = "returned"

ScenarioA == R(40, 500, 300, 515)

ScenarioB == R(20, 700, 580, 715)

\* C1: whichever branch produced it, the returned region's bottom edge y1 is
\* not below the caption's top edge y0.
C1_BottomAtCaptionTop ==
    Returned => final_rect.y1 <= caption_rect.y0

\* C1 witness: the object-union branch ran on a candidate that reaches below
\* the caption's top edge.
C1_Witness ==
    /\ Returned
    /\ \E i \in 1..Len(cands) : cands[i].y1 > caption_rect.y0 /\ ~IsEmpty(cands[i])
    /\ final_rect.y1 = caption_rect.y0

\* C2 (as claimed): the returned rectangle has x0 <= x1 and y0 <= y1, so its
\* top edge is never below the caption's top edge.
C2_NonNegativeSize ==
    Returned => final_rect.x0 <= final_rect.x1 /\ final_rect.y0 <= final_rect.y1

\* C2 witness: a caption inside the header band came back with crossed edges.
C2_Witness ==
    /\ Returned
    /\ caption_rect.y0 < pt(min_y_limit)
    /\ final_rect.y0 > final_rect.y1

\* The classification the specification describes, for a tolerance m: left
\* when the right edge is left of midline + m, else right when the left edge
\* is right of midline - m, else full width.
ClaimedLayout(cr, page_width, m) ==
    IF 2 * cr.x1 < page_width + 2 * m THEN "LEFT_COLUMN"
    ELSE IF 2 * cr.x0 > page_width - 2 * m THEN "RIGHT_COLUMN"
    ELSE "FULL_WIDTH"

BandInPage == 0 <= band.x0 /\ band.x0 <= band.x1 /\ band.x1 <= page.width

ScenarioBHolds ==
    (caption_rect = ScenarioB /\ page.width = pt(600))
        => (layout = "FULL_WIDTH" /\ band = [x0 |-> 0, x1 |-> pt(600)])

\* C5 (as claimed): for some tolerance between 0 and 20 units the layout is
\* the claimed one, the band lies in the page, and scenario B is full width.
C5_Original ==
    Returned =>
        /\ \E m \in 0..pt(20) : layout = ClaimedLayout(caption_rect, page.width, m)
        /\ BandInPage
        /\ ScenarioBHolds

\* C5 (amended): with margin = 5% of the page width, the caption is left
\* column, band [0, midline], when its right edge is left of midline - margin;
\* otherwise right column, band [midline, width], when its left edge is right
\* of midline + margin; otherwise full width, band [0, width]. Every band
\* lies in [0, width], and scenario B is full width with band [0, 600].
C5_Amended ==
    Returned =>
        LET mid == page.width \div 2
            m == page.width \div 20
        IN  /\ caption_rect.x1 < mid - m
                => (layout = "LEFT_COLUMN" /\ band = [x0 |-> 0, x1 |-> mid])
            /\ (caption_rect.x1 >= mid - m /\ caption_rect.x0 > mid + m)
                => (layout = "RIGHT_COLUMN" /\ band = [x0 |-> mid, x1 |-> page.width])
            /\ (caption_rect.x1 >= mid - m /\ caption_rect.x0 <= mid + m)
                => (layout = "FULL_WIDTH" /\ band = [x0 |-> 0, x1 |-> page.width])
            /\ BandInPage
            /\ ScenarioBHolds

\* C5 witness: scenario B was classified, and came out full width.
C5_Witness ==
    /\ Returned /\ caption_rect = ScenarioB /\ page.width = pt(600)
    /\ layout = "FULL_WIDTH" /\ band = [x0 |-> 0, x1 |-> pt(600)]

\* C6: once a caption has been classified right column, no caption whose
\* centre lies further right is classified left column.
C6_Monotonic ==
    (Returned /\ seen_right) => layout # "LEFT_COLUMN"

\* C6 witness: a right-column caption was moved right and classified again,
\* this time as full width (its left edge moved back over the boundary).
C6_Witness ==
    /\ Returned /\ seen_right /\ moves > 0
    /\ layout = "FULL_WIDTH"

\* C7 (as claimed): with no candidate the region is the whole band from the
\* ceiling down to the caption, and scenario A gives (0, 400, 300, 500).
C7_Original ==
    (Returned /\ cands = <<>>) =>
        /\ final_rect.x0 = band.x0
        /\ final_rect.x1 = band.x1
        /\ final_rect.y1 = caption_rect.y0
        /\ (caption_rect = ScenarioA /\ page.width = pt(600))
               => final_rect = R(0, 400, 300, 500)

\* C7 (amended): with no candidate the region is the band narrowed by 30 units
\* on each side, from max(50, caption top - page height / 3) down to the
\* caption's top edge; on a 600 x 900 page scenario A is full width and gives
\* (30, 200, 570, 500).
C7_Amended ==
    (Returned /\ cands = <<>>) =>
        /\ final_rect.x0 - band.x0 = pt(30)
        /\ band.x1 - final_rect.x1 = pt(30)
        /\ final_rect.y1 = caption_rect.y0
        /\ final_rect.y0 >= pt(50)
        /\ 3 * final_rect.y0 >= 3 * caption_rect.y0 - page.height
        /\ \/ final_rect.y0 = pt(50)
           \/ 3 * final_rect.y0 = 3 * caption_rect.y0 - page.height
        /\ (caption_rect = ScenarioA /\ page.width = pt(600) /\ page.height = pt(900))
               => final_rect = R(30, 200, 570, 500)

\* C7 witness: scenario A resolved through the fallback branch.
C7_Witness ==
    /\ Returned /\ cands = <<>>
    /\ caption_rect = ScenarioA /\ page.height = pt(900)
    /\ final_rect = R(30, 200, 570, 500)

\* C8 (as claimed): the object-union result lies in the caption's band
\* horizontally and between the ceiling (50) and the caption top vertically.
C8_InsideBand ==
    (Returned /\ cands # <<>>) =>
        /\ final_rect.x0 >= band.x0
        /\ final_rect.x1 <= band.x1
        /\ final_rect.y0 >= pt(min_y_limit)
        /\ final_rect.y0 <= caption_rect.y0
        /\ final_rect.y1 <= caption_rect.y0

\* C8 witness: a left-column caption, and an object-union result that runs
\* past the band's right edge.
C8_Witness ==
    /\ Returned /\ cands # <<>>
    /\ layout = "LEFT_COLUMN"
    /\ final_rect.x1 > band.x1

\* The region of interest: the band, from the header margin to the caption top.
ROI == Rect(band.x0, pt(min_y_limit), band.x1, caption_rect.y0)

Intersects(a, b) ==
    /\ Max(a.x0, b.x0) < Min(a.x1, b.x1)
    /\ Max(a.y0, b.y0) < Min(a.y1, b.y1)

\* More than 90% of both page dimensions.
PageSized(r) ==
    /\ 10 * (r.x1 - r.x0) > 9 * page.width
    /\ 10 * (r.y1 - r.y0) > 9 * page.height

VisualObjects ==
    {page.drawings[i] : i \in 1..Len(page.drawings)}
        \cup {page.images[i].rect : i \in {j \in 1..Len(page.images) : page.images[j].ok}}

---------------------------------------------------------------------------
(* is_caption. A text is a sequence of characters; an ASCII character is   *)
(* written as itself and any other by its code point: "U+56FE" is the      *)
(* Chinese word for figure, "U+8868" the one for table.                    *)

\* What \s and str.strip() take for white space: the blank, the tab and the
\* line ends stand for the Unicode white space characters.
IsSpace(c) == c \in {" ", "\t", "\n", "\r"}

\* What \d takes for a digit: ASCII digits and the other Unicode decimal
\* digits, here the full-width ones, written by their code points.
IsDigit(c) == c \in {"0", "1", "2", "3", "4", "5", "6", "7", "8", "9", "U+FF11", "U+FF12"}

\* re.IGNORECASE on the letters of the pattern; the dotless i matches i.
Fold(c) ==
    CASE c \in {"F", "f"} -> "f"
      [] c \in {"I", "i", "U+0131"} -> "i"
      [] c \in {"G", "g"} -> "g"
      [] c \in {"U", "u"} -> "u"
      [] c \in {"R", "r"} -> "r"
      [] c \in {"E", "e"} -> "e"
      [] OTHER -> c

RECURSIVE lstrip(_)
lstrip(t) == IF t # <<>> /\ IsSpace(Head(t)) THEN lstrip(Tail(t)) ELSE t

RECURSIVE rstrip(_)
rstrip(t) ==
    IF t # <<>> /\ IsSpace(t[Len(t)]) THEN rstrip(SubSeq(t, 1, Len(t) - 1)) ELSE t

\* text.strip()
strip(t) == rstrip(lstrip(t))

\* Whether w, a sequence of lower-case letters, stands in t at position i
\* under IGNORECASE.
LettersAt(t, i, w) ==
    /\ i + Len(w) - 1 <= Len(t)
    /\ \A k \in 1..Len(w) : Fold(t[i + k - 1]) = w[k]

CharAt(t, i, c) == i <= Len(t) /\ t[i] = c

ExactAt(t, i, w) ==
    /\ i + Len(w) - 1 <= Len(t)
    /\ \A k \in 1..Len(w) : t[i + k - 1] = w[k]

\* The positions at which the group (U+56FE|Fig(ure)?\.?) can end when it is
\* matched at the start of t.
marker_ends(t) ==
    (IF CharAt(t, 1, "U+56FE") THEN {1} ELSE {})
    \cup (IF LettersAt(t, 1, <<"f", "i", "g">>)
          THEN {3} \cup (IF CharAt(t, 4, ".") THEN {4} ELSE {})
                   \cup (IF LettersAt(t, 4, <<"u", "r", "e">>)
                         THEN {6} \cup (IF CharAt(t, 7, ".") THEN {7} ELSE {})
                         ELSE {})
          ELSE {})

marker_ends_case_sensitive(t) ==
    (IF CharAt(t, 1, "U+56FE") THEN {1} ELSE {})
    \cup (IF ExactAt(t, 1, <<"F", "i", "g">>)
          THEN {3} \cup (IF CharAt(t, 4, ".") THEN {4} ELSE {})
                   \cup (IF ExactAt(t, 4, <<"u", "r", "e">>)
                         THEN {6} \cup (IF CharAt(t, 7, ".") THEN {7} ELSE {})
                         ELSE {})
          ELSE {})

\* \s* from position i: the first position that holds no white space.
RECURSIVE skip_spaces(_, _)
skip_spaces(t, i) ==
    IF i <= Len(t) /\ IsSpace(t[i]) THEN skip_spaces(t, i + 1) ELSE i

\* \d+ at position i
digits_at(t, i) == i <= Len(t) /\ IsDigit(t[i])

\* re.match(pattern, text, re.IGNORECASE) is not None
match_pattern(t, ends) ==
    \E e \in ends : digits_at(t, skip_spaces(t, e + 1))

is_caption_case_sensitive(t) ==
    LET s == strip(t) IN match_pattern(s, marker_ends_case_sensitive(s))

\* Lines 25-35
is_caption(t) ==
    LET s == strip(t) IN match_pattern(s, marker_ends(s))

---------------------------------------------------------------------------
(* Inputs of the caption detector.                                         *)

MaxLead == 1

MaxDots == 2

MaxGap == 2

MaxDigits == 2

LeadTexts == SeqsUpTo({" "}, MaxLead)

MarkerTexts == {<<"U+56FE">>, <<"U+56FE", "U+8868">>, <<"U+8868">>,
                <<"F", "i", "g">>, <<"f", "i", "g">>, <<"F", "I", "G">>,
                <<"F", "U+0131", "g">>, <<"F", "i">>,
                <<"F", "i", "g", "u", "r", "e">>, <<"f", "i", "g", "u", "r", "e">>,
                <<"F", "I", "G", "U", "R", "E">>, <<"F", "i", "g", "u", "r">>,
                <<"F", "i", "g", "u", "r", "e", "s">>,
                <<"s", "e", "e", " ", "f", "i", "g", "u", "r", "e">>}

DotTexts == SeqsUpTo({"."}, MaxDots)

GapTexts == SeqsUpTo({" ", "\n"}, MaxGap)

DigitTexts == SeqsUpTo({"2", "U+FF11"}, MaxDigits)

TailTexts == {<<>>, <<":", " ", "r", "e", "s", "u", "l", "t", "s">>,
              <<" ", "a", "b", "o", "v", "e">>}

FigureTwoResults ==
    <<"F", "i", "g", "u", "r", "e", " ", "2", ":", " ", "r", "e", "s", "u", "l", "t", "s">>

SeeFigureAbove ==
    <<"s", "e", "e", " ", "f", "i", "g", "u", "r", "e", " ", "a", "b", "o", "v", "e">>

Texts ==
    {l \o m \o d \o g \o n \o t :
        l \in LeadTexts, m \in MarkerTexts, d \in DotTexts,
        g \in GapTexts, n \in DigitTexts, t \in TailTexts}

InitCaption ==
    /\ ClipIdle /\ LoopIdle
    /\ text \in Texts
    /\ matched = FALSE
    /\ cpc = "call"

\* One call of is_caption.
Detect ==
    /\ cpc = "call"
    /\ matched' = is_caption(text)
    /\ cpc' = "done"
    /\ UNCHANGED text
    /\ UNCHANGED clipVars /\ UNCHANGED loopVars

NextCaption == Detect

SpecCaption == InitCaption /\ [][NextCaption]_vars

---------------------------------------------------------------------------
(* Properties of the caption detector, under SpecCaption.                  *)

\* t starts with marker mk (letters compared without case), then any number
\* of white space characters, then a digit.
StartsWithMarkerThenDigit(t, mk) ==
    /\ Len(t) > Len(mk)
    /\ \A k \in 1..Len(mk) : Fold(t[k]) = Fold(mk[k])
    /\ \E j \in (Len(mk) + 1)..Len(t) :
          /\ IsDigit(t[j])
          /\ \A k \in (Len(mk) + 1)..(j - 1) : IsSpace(t[k])

ClaimedMarkers == {<<"U+56FE">>, <<"F", "i", "g">>, <<"F", "i", "g", ".">>,
                   <<"F", "i", "g", "u", "r", "e">>}

CodeMarkers == ClaimedMarkers \cup {<<"F", "i", "g", "u", "r", "e", ".">>}

ScenarioD ==
    /\ text = FigureTwoResults => matched
    /\ text = SeeFigureAbove => ~matched

\* C4 (as claimed): is_caption is true exactly when the text, leading white
\* space trimmed, starts with U+56FE, Fig, Fig. or Figure and then, after optional
\* white space, a digit.
C4_Original ==
    cpc = "done" =>
        /\ matched <=> \E mk \in ClaimedMarkers :
                           StartsWithMarkerThenDigit(lstrip(text), mk)
        /\ ScenarioD

\* C4 (amended): is_caption is true exactly when the text, leading white
\* space trimmed, starts with U+56FE, Fig, Fig., Figure or Figure. (letters in any
\* case) and then, after optional white space, a digit; "Figure 2: results"
\* matches and "see figure above" does not.
C4_Amended ==
    cpc = "done" =>
        /\ matched <=> \E mk \in CodeMarkers :
                           StartsWithMarkerThenDigit(lstrip(text), mk)
        /\ ScenarioD

\* C4 witness: "Figure 2: results" was tested and matched.
C4_Witness ==
    cpc = "done" /\ text = FigureTwoResults /\ matched

---------------------------------------------------------------------------
(* The extraction loop (lines 170-259).                                    *)

min_clip_size == 50

zoom == 4

max_name_len == 80

too_small_never(r) == FALSE

\* Line 198: clip_rect.width < 50 or clip_rect.height < 50
too_small(r) == RectWidth(r) < pt(min_clip_size) \/ RectHeight(r) < pt(min_clip_size)

\* Whether block a sorts strictly before block b under the key (b[1], b[0]).
key_less(a, b) ==
    \/ a.rect.y0 < b.rect.y0
    \/ (a.rect.y0 = b.rect.y0 /\ a.rect.x0 < b.rect.x0)

\* b put into the sorted sequence s after every block not greater than it.
RECURSIVE insert_sorted(_, _)
insert_sorted(s, b) ==
    IF s = <<>> THEN <<b>>
    ELSE IF key_less(b, s[Len(s)])
         THEN Append(insert_sorted(SubSeq(s, 1, Len(s) - 1), b), s[Len(s)])
         ELSE Append(s, b)

RECURSIVE sort_from(_, _, _)
sort_from(acc, bs, i) ==
    IF i > Len(bs) THEN acc ELSE sort_from(insert_sorted(acc, bs[i]), bs, i + 1)

sort_blocks_not_sorted(bs) == bs

\* Line 183: blocks.sort(key=lambda b: (b[1], b[0])), a stable sort.
sort_blocks(bs) == sort_from(<<>>, bs, 1)

\* str.replace: every occurrence of character a becomes the sequence by.
RECURSIVE replace_char(_, _, _)
replace_char(t, a, by) ==
    IF t = <<>> THEN <<>>
    ELSE (IF Head(t) = a THEN by ELSE <<Head(t)>>) \o replace_char(Tail(t), a, by)

\* Line 192: text.strip().replace("\n", " ")
clean_caption(t) == replace_char(strip(t), "\n", <<" ">>)

IllegalChars == {"\\", "/", "*", "?", ":", "\"", "<", ">", "|"}

Take(t, n) == SubSeq(t, 1, Min(n, Len(t)))

\* Lines 16-23
sanitize_filename(t) ==
    LET a == replace_char(replace_char(t, "\n", <<" ">>), "\r", <<>>)
        b == SelectSeq(a, LAMBDA c : c \notin IllegalChars)
    IN  Take(strip(b), max_name_len)

\* Lines 209-211: the sanitized caption, or a name made of the page number.
file_name(t, page_no) ==
    LET file_name_clean == sanitize_filename(clean_caption(t))
    IN  IF file_name_clean = <<>> THEN <<"Page_", page_no, "_Figure">>
        ELSE file_name_clean

\* Lines 203-206: the picture of clip_rect at 4 pixels per page unit; width
\* and height are its pixel size (clip_rect is held in half units).
get_pixmap(page_no, r) ==
    [page |-> page_no, clip |-> r,
     width |-> (zoom * RectWidth(r)) \div 2, height |-> (zoom * RectHeight(r)) \div 2]

\* Lines 213-217
figure_entry(t, page_no, r) ==
    [bytes |-> get_pixmap(page_no, r), name |-> file_name(t, page_no), page |-> page_no]

---------------------------------------------------------------------------
(* Inputs of the extraction loop: the pages a document may hold.           *)

MaxPages == 2

MaxBlocks == 2

FigureOne == <<"U+56FE", "1">>

FigTwo == <<"f", "i", "g", ".", "\n", "2", " ", "a", "/", "b", "?">>

\* Text blocks as page.get_text("blocks") delivers them.
Blocks == {[rect |-> R(40, 500, 260, 515), text |-> FigureOne],
           [rect |-> R(340, 500, 560, 515), text |-> FigTwo],
           [rect |-> R(40, 100, 560, 400), text |-> SeeFigureAbove],
           [rect |-> R(40, 55, 260, 70), text |-> FigureTwoResults]}

\* The caption whose region is 5 units high: from the header margin 50 down
\* to the caption top 55.
SmallRegionBlock == [rect |-> R(40, 55, 260, 70), text |-> FigureTwoResults]

LoopPages ==
    {[width |-> pt(600), height |-> pt(900), drawings |-> d, images |-> <<>>, blocks |-> bs] :
        d \in {<<>>, <<R(60, 200, 240, 480)>>},
        bs \in SeqsUpTo(Blocks, MaxBlocks)}

Init ==
    /\ CapIdle /\ ClipIdle
    /\ total_pages \in 1..MaxPages
    /\ pc = "ready" /\ page_idx = 0 /\ cur_page = NoPage
    /\ blocks = <<>> /\ bi = 0 /\ clip_rect = NoRect
    /\ extracted_results = <<>> /\ slides = <<>>
    /\ origins = <<>> /\ detected = 0

\* Lines 151-174: the button is pressed, the figure list starts empty.
Start ==
    /\ pc = "ready"
    /\ extracted_results' = <<>>
    /\ slides' = <<>>
    /\ origins' = <<>>
    /\ pc' = "page"
    /\ UNCHANGED <<total_pages, page_idx, cur_page, blocks, bi, clip_rect, detected>>
    /\ UNCHANGED capVars /\ UNCHANGED clipVars

\* Lines 176-183: the next page of the document, its blocks sorted.
ScanPage ==
    /\ pc = "page"
    /\ page_idx < total_pages
    /\ \E pg \in LoopPages :
          /\ cur_page' = pg
          /\ blocks' = sort_blocks(pg.blocks)
    /\ page_idx' = page_idx + 1
    /\ bi' = 1
    /\ pc' = "block"
    /\ UNCHANGED <<total_pages, clip_rect, extracted_results, slides, origins, detected>>
    /\ UNCHANGED capVars /\ UNCHANGED clipVars

\* Lines 185-189: a block that is no caption is passed over.
PassBlock ==
    /\ pc = "block"
    /\ bi <= Len(blocks)
    /\ ~is_caption(blocks[bi].text)
    /\ bi' = bi + 1
    /\ UNCHANGED <<total_pages, pc, page_idx, cur_page, blocks, clip_rect,
                   extracted_results, slides, origins, detected>>
    /\ UNCHANGED capVars /\ UNCHANGED clipVars

\* Lines 189-195: a caption, and its region.
ResolveCaption ==
    /\ pc = "block"
    /\ bi <= Len(blocks)
    /\ is_caption(blocks[bi].text)
    /\ clip_rect' = get_smart_clip_rect(cur_page, blocks[bi].rect,
                                        cur_page.width, cur_page.height)
    /\ detected' = detected + 1
    /\ pc' = "resolved"
    /\ UNCHANGED <<total_pages, page_idx, cur_page, blocks, bi,
                   extracted_results, slides, origins>>
    /\ UNCHANGED capVars /\ UNCHANGED clipVars

\* Lines 198-199: a region too small is dropped, on to the next block.
\* clip_rect is not read again before it is assigned: it is put back to idle.
SkipSmall ==
    /\ pc = "resolved"
    /\ too_small(clip_rect)
    /\ bi' = bi + 1
    /\ clip_rect' = NoRect
    /\ pc' = "block"
    /\ UNCHANGED <<total_pages, page_idx, cur_page, blocks,
                   extracted_results, slides, origins, detected>>
    /\ UNCHANGED capVars /\ UNCHANGED clipVars

\* Lines 201-259: the region is rendered, recorded and put on a slide.
RecordFigure ==
    /\ pc = "resolved"
    /\ ~too_small(clip_rect)
    /\ extracted_results' =
          Append(extracted_results, figure_entry(blocks[bi].text, page_idx, clip_rect))
    /\ slides' = Append(slides, clean_caption(blocks[bi].text))
    /\ origins' = Append(origins, [page |-> page_idx, block |-> blocks[bi]])
    /\ bi' = bi + 1
    /\ clip_rect' = NoRect
    /\ pc' = "block"
    /\ UNCHANGED <<total_pages, page_idx, cur_page, blocks, detected>>
    /\ UNCHANGED capVars /\ UNCHANGED clipVars

\* The inner loop has run through the page's blocks. The page, its blocks and
\* the block index are not read again: they are put back to their idle values.
EndPage ==
    /\ pc = "block"
    /\ bi > Len(blocks)
    /\ cur_page' = NoPage
    /\ blocks' = <<>>
    /\ bi' = 0
    /\ pc' = "page"
    /\ UNCHANGED <<total_pages, page_idx, clip_rect,
                   extracted_results, slides, origins, detected>>
    /\ UNCHANGED capVars /\ UNCHANGED clipVars

\* Line 261: the outer loop has run through the document.
Finish ==
    /\ pc = "page"
    /\ page_idx = total_pages
    /\ pc' = "done"
    /\ UNCHANGED <<total_pages, page_idx, cur_page, blocks, bi, clip_rect,
                   extracted_results, slides, origins, detected>>
    /\ UNCHANGED capVars /\ UNCHANGED clipVars

Next ==
    \/ Start
    \/ ScanPage
    \/ PassBlock
    \/ ResolveCaption
    \/ SkipSmall
    \/ RecordFigure
    \/ EndPage
    \/ Finish

Spec == Init /\ [][Next]_vars

---------------------------------------------------------------------------
(* Properties of the extraction loop, under Spec.                          *)

\* C3: a caption whose region is under the minimum size (the caption whose
\* region is 5 units high among them) is skipped; every recorded figure comes
\* from a region of positive width and height, at least the minimum, and has
\* pixels in both axes; there are never more figures than blocks that
\* is_caption accepted.
C3_SmallRegionsSkipped ==
    /\ Len(origins) = Len(extracted_results)
    /\ \A i \in 1..Len(extracted_results) :
          LET f == extracted_results[i]
          IN  /\ f.bytes.clip.x1 - f.bytes.clip.x0 >= pt(50)
              /\ f.bytes.clip.y1 - f.bytes.clip.y0 >= pt(50)
              /\ f.bytes.width > 0
              /\ f.bytes.height > 0
              /\ origins[i].block # SmallRegionBlock
    /\ Len(extracted_results) <= detected

\* C3 witness: the caption whose region is 5 units high was skipped, the next
\* caption of the page was recorded.
C3_Witness ==
    /\ pc = "block" /\ bi = 3
    /\ blocks[1] = SmallRegionBlock
    /\ detected = 2
    /\ Len(extracted_results) = 1

AppendOnly ==
    \/ extracted_results' = extracted_results
    \/ /\ Len(extracted_results') = Len(extracted_results) + 1
       /\ SubSeq(extracted_results', 1, Len(extracted_results)) = extracted_results

\* A caption in hand is finished, recorded or skipped, in the next step, and
\* only then does the loop move to the next block of the same page.
OneAtATime ==
    pc = "resolved" =>
        /\ pc' = "block" /\ bi' = bi + 1 /\ page_idx' = page_idx /\ blocks' = blocks
        /\ \/ extracted_results' = extracted_results
           \/ /\ Len(extracted_results') = Len(extracted_results) + 1
              /\ extracted_results'[Len(extracted_results')].page = page_idx
              /\ origins'[Len(origins')] = [page |-> page_idx, block |-> blocks[bi]]

\* Figures are in ascending page order and, within a page, in the order of
\* their captions from top to bottom, then left to right.
Ordered ==
    /\ Len(origins) = Len(extracted_results)
    /\ \A i \in 1..Len(origins) : extracted_results[i].page = origins[i].page
    /\ \A i, j \in 1..Len(origins) :
          i < j =>
              \/ origins[i].page < origins[j].page
              \/ /\ origins[i].page = origins[j].page
                 /\ ~key_less(origins[j].block, origins[i].block)

\* C10: during a run the figure list is only appended to, each caption is
\* finished before the next block is examined, and the list is in ascending
\* page order and, within a page, in the sorted order of the captions.
C10_AppendOnlyOrdered ==
    [][AppendOnly /\ OneAtATime /\ Ordered']_vars

\* C10 witness: the second page's blocks came out of the sort in another
\* order than they went in, and four figures from two pages are recorded.
C10_Witness ==
    /\ pc = "block" /\ page_idx = 2 /\ bi > Len(blocks)
    /\ cur_page.blocks # blocks
    /\ Len(extracted_results) = 4

====
